---- MODULE Spec2Model ----
(***************************************************************************)
(* Model of the ITCombiner storage tasks of ITensor                        *)
(* (itensor/itdata/itcombiner.cc): element access on a Combiner and the    *)
(* combine / uncombine algorithm behind doTask(Contract, ITReal,           *)
(* ITCombiner) in both operand orders.                                     *)
(*                                                                         *)
(* Positions are 0-based as in the source: At(is,j) is is[j] of the C++.   *)
(* An Index is a record [id, m] (identity, dimension); two indices are     *)
(* equal iff the records are.                                              *)
(*                                                                         *)
(* A second part models LocalMPO (itensor/localmpo.h): the window limits   *)
(* LHlim_ and RHlim_, the edge tensors PH_, and the calls position, shift  *)
(* and reset; it runs under its own specification SpecMPO.                 *)
(***************************************************************************)
EXTENDS Integers, Sequences, FiniteSets, TLC

\* ---------------------------------------------------------------- bounds
\* largest rank of the dense tensor's IndexSet drawn in Init
MaxRank == 4
\* largest number of index values handed to GetElt
MaxEltInds == 2

\* ---------------------------------------------------------------- indices
\* the plain (non-composite) indices tensors are built from
PlainInds ==
    { [id |-> "A", m |-> 2], [id |-> "B", m |-> 3],
      [id |-> "C", m |-> 2], [id |-> "D", m |-> 2] }

\* the indices a Combiner is built over; D is never combined
Combinable == { I \in PlainInds : I.id # "D" }

\* value of a default-constructed Index
NoIndex == [id |-> "", m |-> 0]

r(is) == Len(is)

At(is, j) == is[j + 1]

RECURSIVE Prod(_)
Prod(dims) == IF dims = <<>> THEN 1 ELSE Head(dims) * Prod(Tail(dims))

\* the function f over 1..n as the tuple of its values
AsTuple(f) == SubSeq(f, 1, Len(f))

Extents(is) == AsTuple([j \in 1..Len(is) |-> is[j].m])

\* sequences without repetition over S, of length lo..hi
SeqsNoDup(S, lo, hi) ==
    { s \in UNION { [1..k -> S] : k \in lo..hi } :
        \A a, b \in 1..Len(s) : a # b => s[a] # s[b] }

HasDup(is) == \E a, b \in 1..Len(is) : a # b /\ is[a] = is[b]

\* combiner(inds): the composite index has the product of the dimensions
cindOf(cs) == [id |-> "c", m |-> Prod(Extents(cs))]

\* position of I in is, -1 when absent
findindex(is, I) ==
    IF \E j \in 0..(r(is) - 1) : At(is, j) = I
    THEN CHOOSE j \in 0..(r(is) - 1) :
            /\ At(is, j) = I
            /\ \A k \in 0..(j - 1) : At(is, k) # I
    ELSE -1

\* ---------------------------------------------------------------- dense layout
\* strides of a dense tensor with extents dims: the last index runs fastest
Strides(dims) == AsTuple([j \in 1..Len(dims) |-> Prod(SubSeq(dims, j + 1, Len(dims)))])

RECURSIVE OffsetFrom(_, _, _)
OffsetFrom(st, vals, j) ==
    IF j > Len(st) THEN 0
    ELSE vals[j] * st[j] + OffsetFrom(st, vals, j + 1)

\* offset in the flat buffer of the element with index values vals (0-based),
\* for the strides st
Offset(st, vals) == OffsetFrom(st, vals, 1)

\* index values of the element stored at offset k
ValsOf(dims, st, k) == [j \in 1..Len(dims) |-> (k \div st[j]) % dims[j]]

\* permute(tfrom,P): index j of the source becomes index P.dest(j) of the
\* result, and the result is stored densely in its own index order
permute(data, dims, P) ==
    LET n == Len(dims)
        dimsTo == AsTuple([q \in 1..n |-> dims[CHOOSE j \in 1..n : P[j] = q - 1]])
        stTo == Strides(dimsTo)
        stFrom == Strides(dims)
    IN  AsTuple([k \in 1..Len(data) |->
            LET valsTo == ValsOf(dimsTo, stTo, k - 1)
                valsFrom == [j \in 1..n |-> valsTo[P[j] + 1]]
            IN  data[Offset(stFrom, valsFrom) + 1]])

\* ---------------------------------------------------------------- IndexSetBuilder
IndexSetBuilder(n) ==
    [ext |-> AsTuple([j \in 1..n |-> NoIndex]), cnt |-> AsTuple([j \in 1..n |-> 0]),
     oob |-> FALSE]

\* newind.setExtent(i,I); cnt counts the writes to each slot
setExtent(b, i, I) ==
    IF i >= 0 /\ i < Len(b.ext)
    THEN [b EXCEPT !.ext[i + 1] = I, !.cnt[i + 1] = @ + 1]
    ELSE [b EXCEPT !.oob = TRUE]

build(b) == b.ext

\* ---------------------------------------------------------------- Permutation
\* Permutation(n) with every destination set to -1 (line 97)
PermutationUnset(n) == AsTuple([j \in 1..n |-> -1])

setFromTo(P, j, to) == [P EXCEPT ![j + 1] = to]

dest(P, j) == P[j + 1]

\* ---------------------------------------------------------------- ManageStore
NoData == <<>>

\* a fresh mediator: nothing installed, no pointer reassigned
NewManageStore == [nd |-> NoData, made |-> FALSE, calls |-> 0, action |-> "None"]

makeNewData(m, data) ==
    [m EXCEPT !.nd = data, !.made = TRUE, !.calls = @ + 1, !.action = "AssignNewData"]

newData(m) == m.made

assignPointerRtoL(m) == [m EXCEPT !.action = "AssignPointerRtoL"]

\* ---------------------------------------------------------------- errors
NoError == [msg |-> "", missing |-> NoIndex]

Error(msg, missing) == [msg |-> msg, missing |-> missing]

\* ---------------------------------------------------------------- combine loops
\* for(k = k; k < hi; ++k) newind.setExtent(i++,is[k]);  (lines 48-49, 85-86, 88-89)
RECURSIVE copyExtents(_, _, _, _, _)
copyExtents(b, i, is, k, hi) ==
    IF k >= hi THEN [b |-> b, i |-> i]
    ELSE copyExtents(setExtent(b, i, At(is, k)), i + 1, is, k + 1, hi)

\* for(auto j : count(dis.r())) of the uncombine branch (lines 45-54)
RECURSIVE UncombineLoop(_, _, _, _, _, _)
UncombineLoop(b, i, dis, Cis, jc, j) ==
    IF j >= r(dis) THEN b
    ELSE IF j = jc
         THEN LET s == copyExtents(b, i, Cis, 1, Len(Cis))
              IN  UncombineLoop(s.b, s.i, dis, Cis, jc, j + 1)
         ELSE UncombineLoop(setExtent(b, i, At(dis, j)), i + 1, dis, Cis, jc, j + 1)

\* for(auto j = J1+1; c < Cis.r() && j < dis.r(); ++j,++c) (lines 73-78):
\* ok is contig_sameord after the loop, c the counter after the loop
RECURSIVE ContigLoop(_, _, _, _)
ContigLoop(dis, Cis, j, c) ==
    IF c < r(Cis) /\ j < r(dis)
    THEN IF At(dis, j) # At(Cis, c)
         THEN [ok |-> FALSE, c |-> c]
         ELSE ContigLoop(dis, Cis, j + 1, c + 1)
    ELSE [ok |-> TRUE, c |-> c]

\* the same loop without the check of line 79
contig_sameord_NoEndCheck(dis, Cis, J1) == ContigLoop(dis, Cis, J1 + 1, 2).ok

\* contig_sameord as tested at line 81
contig_sameord(dis, Cis, J1) ==
    LET l == ContigLoop(dis, Cis, J1 + 1, 2)
    IN  IF l.c # r(Cis) THEN FALSE ELSE l.ok

\* the loop of lines 102-113 laying the constituents out in the reverse of
\* the Combiner's order
RECURSIVE FrontLoop_Reversed(_, _, _, _, _)
FrontLoop_Reversed(P, ni, dis, Cis, c) ==
    IF c >= r(Cis) THEN [ok |-> TRUE, P |-> P, ni |-> ni, missing |-> NoIndex]
    ELSE LET j == findindex(dis, At(Cis, c))
         IN  IF j < 0
             THEN [ok |-> FALSE, P |-> P, ni |-> ni, missing |-> At(Cis, c)]
             ELSE FrontLoop_Reversed(setFromTo(P, j, r(Cis) - 2 - ni), ni + 1,
                                     dis, Cis, c + 1)

\* for(auto c : count(1,Cis.r())) (lines 102-113): constituents to the front
RECURSIVE FrontLoop(_, _, _, _, _)
FrontLoop(P, ni, dis, Cis, c) ==
    IF c >= r(Cis) THEN [ok |-> TRUE, P |-> P, ni |-> ni, missing |-> NoIndex]
    ELSE LET j == findindex(dis, At(Cis, c))
         IN  IF j < 0
             THEN [ok |-> FALSE, P |-> P, ni |-> ni, missing |-> At(Cis, c)]
             ELSE FrontLoop(setFromTo(P, j, ni), ni + 1, dis, Cis, c + 1)

\* for(auto j : count(dis.r())) if(P.dest(j) == -1) ... (lines 118-123)
RECURSIVE BackLoop(_, _, _, _, _, _)
BackLoop(P, ni, b, i, dis, j) ==
    IF j >= r(dis) THEN [P |-> P, b |-> b]
    ELSE IF dest(P, j) = -1
         THEN BackLoop(setFromTo(P, j, ni), ni + 1,
                       setExtent(b, i, At(dis, j)), i + 1, dis, j + 1)
         ELSE BackLoop(P, ni, b, i, dis, j + 1)

\* ---------------------------------------------------------------- combine
\* What a call of combine() leaves behind: Nis (assigned tells whether the
\* call assigned it), the mediator, the error thrown (NoError: returned),
\* and the locals a reader of the code can observe: the branch taken, the
\* Permutation P (<<>> when none was constructed) and the builder.
Outcome(Nis, assigned, m, err, path, P, newind) ==
    [Nis |-> Nis, assigned |-> assigned, m |-> m, err |-> err,
     path |-> path, P |-> P, newind |-> newind]

\* the uncombine branch putting the constituents first, as the permuting
\* branch does, instead of at the composite index's position
combineUncombine_Front(d, dis, Cis, Nis, m, jc) ==
    LET s1 == copyExtents(IndexSetBuilder(r(dis) + r(Cis) - 2), 0, Cis, 1, r(Cis))
        s2 == copyExtents(s1.b, s1.i, dis, 0, jc)
        s3 == copyExtents(s2.b, s2.i, dis, jc + 1, r(dis))
    IN  Outcome(build(s3.b), TRUE, m, NoError, "uncombine", <<>>, s3.b)

\* lines 40-56
combineUncombine(d, dis, Cis, Nis, m, jc) ==
    LET newind == UncombineLoop(IndexSetBuilder(r(dis) + r(Cis) - 2), 0, dis, Cis, jc, 0)
    IN  Outcome(build(newind), TRUE, m, NoError, "uncombine", <<>>, newind)

\* the contiguous branch installing a copy of the data all the same
combineContig_Copies(d, dis, Cis, Nis, m, J1) ==
    LET s1 == copyExtents(IndexSetBuilder(r(dis) + 2 - r(Cis)), 0, dis, 0, J1)
        b2 == setExtent(s1.b, s1.i, At(Cis, 0))
        s3 == copyExtents(b2, s1.i + 1, dis, J1 + r(Cis) - 1, r(dis))
    IN  Outcome(build(s3.b), TRUE, makeNewData(m, d.data), NoError, "contig", <<>>, s3.b)

\* lines 81-91
combineContig(d, dis, Cis, Nis, m, J1) ==
    LET s1 == copyExtents(IndexSetBuilder(r(dis) + 2 - r(Cis)), 0, dis, 0, J1)
        b2 == setExtent(s1.b, s1.i, At(Cis, 0))
        s3 == copyExtents(b2, s1.i + 1, dis, J1 + r(Cis) - 1, r(dis))
    IN  Outcome(build(s3.b), TRUE, m, NoError, "contig", <<>>, s3.b)

\* lines 92-128
combineGeneral(d, dis, Cis, Nis, m) ==
    LET f == FrontLoop(PermutationUnset(r(dis)), 0, dis, Cis, 1)
    IN  IF ~f.ok
        THEN Outcome(Nis, FALSE, m, Error("Combiner: missing index", f.missing),
                     "general", f.P, IndexSetBuilder(0))
        ELSE LET b0 == setExtent(IndexSetBuilder(r(dis) + 2 - r(Cis)), 0, At(Cis, 0))
                 l  == BackLoop(f.P, f.ni, b0, 1, dis, 0)
                 to == permute(d.data, Extents(dis), l.P)
             IN  Outcome(build(l.b), TRUE, makeNewData(m, to), NoError,
                         "general", l.P, l.b)

\* combine(d,dis,Cis,Nis,m), lines 29-130
combine(d, dis, Cis, Nis, m) ==
    LET cind == At(Cis, 0)
        jc == findindex(dis, cind)
    IN  IF jc >= 0
        THEN combineUncombine(d, dis, Cis, Nis, m, jc)
        ELSE LET J1 == findindex(dis, At(Cis, 1))
             IN  IF J1 < 0
                 THEN Outcome(Nis, FALSE, m,
                              Error("No contracted indices in combiner-tensor product",
                                    NoIndex),
                              "none", <<>>, IndexSetBuilder(0))
                 ELSE IF contig_sameord(dis, Cis, J1)
                      THEN combineContig(d, dis, Cis, Nis, m, J1)
                      ELSE combineGeneral(d, dis, Cis, Nis, m)

\* ---------------------------------------------------------------- tasks
\* the Contract task: the two operands' IndexSets and the result's
Contract(Lis, Ris) == [Lis |-> Lis, Ris |-> Ris, Nis |-> <<>>]

\* doTask(Contract<Index>&, const ITReal&, const ITCombiner&, ManageStore&)
doTaskRealCombiner(C, d, cmb, m) == combine(d, C.Lis, C.Ris, C.Nis, m)

\* the reversed-order task without line 147
doTaskCombinerReal_NoAssign(C, cmb, d, m) == combine(d, C.Ris, C.Lis, C.Nis, m)

\* doTask(Contract<Index>&, const ITCombiner&, const ITReal&, ManageStore&)
doTaskCombinerReal(C, cmb, d, m) ==
    LET o == combine(d, C.Ris, C.Lis, C.Nis, m)
    IN  IF o.err # NoError THEN o
        ELSE IF ~newData(o.m) THEN [o EXCEPT !.m = assignPointerRtoL(@)]
        ELSE o

Cplx(re, im) == <<re, im>>

NoCplx == <<>>

\* element access that lets a single index value through
doTaskGetElt_RankOne(g, c) ==
    IF Len(g.inds) > 1
    THEN [err |-> Error("GetElt not defined for non-scalar ITCombiner storage", NoIndex),
          val |-> NoCplx]
    ELSE [err |-> NoError, val |-> Cplx(1, 0)]

\* doTask(const GetElt<Index>&, const ITCombiner&)
doTaskGetElt(g, c) ==
    IF Len(g.inds) # 0
    THEN [err |-> Error("GetElt not defined for non-scalar ITCombiner storage", NoIndex),
          val |-> NoCplx]
    ELSE [err |-> NoError, val |-> Cplx(1, 0)]

\* ---------------------------------------------------------------- LocalMPO
\* Model of LocalMPO (itensor/localmpo.h): the window [LHlim_, RHlim_] of an
\* MPO of N sites, the edge tensors PH_[0..N+1] and the updates of the local
\* operator lop_.
\*
\* An edge tensor is modelled by the last site projected into it: projecting
\* site j onto an edge (E * A * Op.AA(j) * conj(primed(A))) gives
\* [site |-> j].  PH_[k] of the source is PH[k+1] here.  Op_->AA(j) is
\* modelled by the site number j.

\* largest MPO length Op.NN() drawn in InitMPO
MaxN == 6
\* largest num_center drawn in InitMPO
MaxNc == 3

\* enum Direction of the library
Fromleft == "Fromleft"

Fromright == "Fromright"

\* no exception left the call
NoThrow == ""

\* a default-constructed tensor
NullTensor == [site |-> -1]

\* what an unchecked read outside PH_ (PH_[k] of L() and R(), lines 219 and
\* 242) can do: end the process, or hand back an arbitrary tensor
UBOutcomes == {"crash", "junk"}

JunkTensor == [site |-> -2]

\* lop_.update was not called
NoUpdate ==
    [called |-> FALSE, Op1 |-> 0, Op2 |-> 0, Lat |-> 0, Rat |-> 0,
     L |-> NullTensor, R |-> NullTensor]

\* LocalMPO() (lines 194-200)
NullLocalMPO ==
    [null |-> TRUE, N |-> 0, PH |-> <<>>, LHlim |-> -1, RHlim |-> -1,
     nc |-> 2, crashed |-> FALSE]

\* what a call leaves: the object, the exception thrown (NoThrow if none),
\* whether it read outside PH_, and what it handed to lop_.update
Ret(lm, err, ub) == [lm |-> lm, err |-> err, ub |-> ub, upd |-> NoUpdate]

\* numCenter(int val) (lines 144-149)
numCenter(lm, val) ==
    IF val < 1 THEN Ret(lm, "numCenter must be set >= 1", FALSE)
    ELSE Ret([lm EXCEPT !.nc = val], NoThrow, FALSE)

\* LocalMPO(const MPOt<Tensor>& Op, int num_center) with Op.NN() = N
\* (lines 203-212)
NewLocalMPO(N, num_center) ==
    numCenter([null |-> FALSE, N |-> N,
               PH |-> AsTuple([k \in 1..(N + 2) |-> NullTensor]),
               LHlim |-> 0, RHlim |-> N + 1, nc |-> 2, crashed |-> FALSE],
              num_center)


\* k is an index of PH_: PH_.at(k) does not throw
InPH(lm, k) == k >= 0 /\ k < Len(lm.PH)

\* psi.projectOp(j, dir, E, Op.AA(j), nE): what nE becomes
projectOp(j, dir, E) == [site |-> j]

\* makeL(psi, k) (lines 351-361); PH_.at throws std::out_of_range
RECURSIVE makeL(_, _)
makeL(lm, k) ==
    IF lm.PH = <<>> \/ ~(lm.LHlim < k) THEN Ret(lm, NoThrow, FALSE)
    ELSE LET ll == lm.LHlim
         IN  IF ~InPH(lm, ll) \/ ~InPH(lm, ll + 1)
             THEN Ret(lm, "out_of_range", FALSE)
             ELSE makeL([lm EXCEPT !.PH[ll + 2] = projectOp(ll + 1, Fromleft, lm.PH[ll + 1]),
                                   !.LHlim = ll + 1], k)

\* makeR(psi, k) (lines 365-375)
RECURSIVE makeR(_, _)
makeR(lm, k) ==
    IF lm.PH = <<>> \/ ~(lm.RHlim > k) THEN Ret(lm, NoThrow, FALSE)
    ELSE LET rl == lm.RHlim
         IN  IF ~InPH(lm, rl) \/ ~InPH(lm, rl - 1)
             THEN Ret(lm, "out_of_range", FALSE)
             ELSE makeR([lm EXCEPT !.PH[rl] = projectOp(rl - 1, Fromright, lm.PH[rl + 1]),
                                   !.RHlim = rl - 1], k)

\* what the unchecked PH_[k] hands back under the outcome u
Unchecked(lm, k, u) ==
    IF InPH(lm, k) THEN lm.PH[k + 1] ELSE JunkTensor

\* lop_.update(Op_->AA(s1), Op_->AA(s2), L(), R()) with L() = PH_[LHlim_] and
\* R() = PH_[RHlim_] (lines 215-220, 238-243, 280, 328, 345): the local
\* operator is handed the two site tensors and the two edge tensors read at
\* Lat = LHlim_ and Rat = RHlim_
update(lm, s1, s2, u) ==
    LET ub == ~(InPH(lm, lm.LHlim) /\ InPH(lm, lm.RHlim))
    IN  IF ub /\ u = "crash"
        THEN [Ret([lm EXCEPT !.crashed = TRUE], NoThrow, TRUE) EXCEPT
                 !.upd = NoUpdate]
        ELSE [Ret(lm, NoThrow, ub) EXCEPT
                 !.upd = [called |-> TRUE, Op1 |-> s1, Op2 |-> s2,
                          Lat |-> lm.LHlim, Rat |-> lm.RHlim,
                          L |-> Unchecked(lm, lm.LHlim, u),
                          R |-> Unchecked(lm, lm.RHlim, u)]]

\* position(int b, const MPSType& psi) (lines 262-281); dbg: built with DEBUG
position(lm, b, dbg, u) ==
    IF lm.null THEN Ret(lm, "LocalMPO is null", FALSE)
    ELSE LET ml == makeL(lm, b - 1)
             mr == makeR(ml.lm, b + lm.nc)
             at == [mr.lm EXCEPT !.LHlim = b - 1, !.RHlim = b + lm.nc]
         IN  IF ml.err # NoThrow THEN ml
             ELSE IF mr.err # NoThrow THEN mr
             ELSE IF dbg /\ lm.nc # 2
             THEN Ret(at, "LocalOp only supports 2 center sites currently", FALSE)
             ELSE update(at, b, b + 1, u)

\* position() with the window taken to be nc_ wide
positionGet_NcWide(lm) ==
    IF lm.RHlim - lm.LHlim # lm.nc
    THEN [err |-> "LocalMPO position not set", val |-> 0]
    ELSE [err |-> NoThrow, val |-> lm.LHlim + 1]

\* position() const (lines 284-292)
positionGet(lm) ==
    IF lm.RHlim - lm.LHlim # lm.nc + 1
    THEN [err |-> "LocalMPO position not set", val |-> 0]
    ELSE [err |-> NoThrow, val |-> lm.LHlim + 1]

\* the Fromleft branch of shift (lines 307-329)
shiftFromleft(lm, j, u) ==
    IF (j - 1) # lm.LHlim THEN Ret(lm, "Can only shift at LHlim_", FALSE)
    ELSE IF ~InPH(lm, lm.LHlim) \/ ~InPH(lm, j)
    THEN Ret(lm, "out_of_range", FALSE)
    ELSE update([lm EXCEPT !.PH[j + 1] = projectOp(j, Fromleft, lm.PH[lm.LHlim + 1]),
                           !.LHlim = j, !.RHlim = j + lm.nc + 1],
                j + 1, j + 2, u)

\* the Fromright branch of shift (lines 330-346); the guard of line 332
\* compares j+1 with LHlim_
shiftFromright(lm, j, u) ==
    IF (j + 1) # lm.LHlim THEN Ret(lm, "Can only shift at RHlim_", FALSE)
    ELSE IF ~InPH(lm, lm.RHlim) \/ ~InPH(lm, j)
    THEN Ret(lm, "out_of_range", FALSE)
    ELSE update([lm EXCEPT !.PH[j + 1] = projectOp(j, Fromright, lm.PH[lm.RHlim + 1]),
                           !.LHlim = j - lm.nc - 1, !.RHlim = j],
                j - 1, j, u)

\* shift(int j, Direction dir, const Tensor& A) (lines 295-347)
shift(lm, j, dir, dbg, u) ==
    IF lm.null THEN Ret(lm, "LocalMPO is null", FALSE)
    ELSE IF dbg /\ lm.nc # 2
    THEN Ret(lm, "LocalOp only supports 2 center sites currently", FALSE)
    ELSE IF dir = Fromleft THEN shiftFromleft(lm, j, u)
    ELSE shiftFromright(lm, j, u)

\* reset() (lines 89-94)
reset(lm) == Ret([lm EXCEPT !.LHlim = 0, !.RHlim = lm.N + 1], NoThrow, FALSE)

\* ---------------------------------------------------------------- state
VARIABLES
    T,      \* the dense ITensor: [is: IndexSet, store: storage]
    cmb,    \* the Combiner ITensor: [is: Cis, store: ITCombiner storage]
    last,   \* the last task run and what it left behind
    trip,   \* [T0, phase]: the tensor before its latest combine, and whether T
            \* is that combine's result ("combined") or the result of
            \* uncombining it again ("roundtrip")
    lm,     \* the LocalMPO object: Op_ (null, N), PH_, LHlim_, RHlim_, nc_
    mlast,  \* the last LocalMPO call: its arguments, the limits before it,
            \* the exception it threw, what it handed to lop_.update
    DEBUG   \* whether the library was built with DEBUG defined

vars == <<T, cmb, last, trip, lm, mlast, DEBUG>>

\* a storage instance: id is the identity of the instance (its address)
Storage(id, kind, data) == [id |-> id, kind |-> kind, data |-> data]

\* the dense buffer 0,1,2,...: every element differs from every other
Iota(n) == AsTuple([k \in 1..n |-> k - 1])

\* values an index value of a GetElt request is drawn from
EltVals == {1, 2}

\* an instance that is neither operand of the product
FreshId(L, R) == CHOOSE i \in 0..2 : i # L.id /\ i # R.id

\* the storage ITensor::operator*= keeps for the product, from what the task
\* told the mediator: the new data, the right operand's, else the left one's
ResultStore(m, L, R) ==
    IF m.action = "AssignNewData" THEN Storage(FreshId(L, R), "ITReal", m.nd)
    ELSE IF m.action = "AssignPointerRtoL" THEN R
    ELSE L

Record(op, in, o, inds, val) ==
    [op |-> op, in |-> in, cmb |-> cmb, Nis |-> o.Nis, assigned |-> o.assigned,
     m |-> o.m, err |-> o.err, path |-> o.path, P |-> o.P, newind |-> o.newind,
     inds |-> inds, val |-> val]

NoOutcome == Outcome(<<>>, FALSE, NewManageStore, NoError, "none", <<>>, IndexSetBuilder(0))

\* a Combiner over the indices cs and a dense tensor with IndexSet dis
Start(cs, dis) ==
    /\ cmb = [is |-> <<cindOf(cs)>> \o cs, store |-> Storage(0, "ITCombiner", <<>>)]
    /\ T = [is |-> dis, store |-> Storage(1, "ITReal", Iota(Prod(Extents(dis))))]
    /\ last = Record("none", T, NoOutcome, <<>>, NoCplx)
    /\ trip = [T0 |-> T, phase |-> "none"]

\* no LocalMPO call was made yet
NoCall ==
    [op |-> "none", arg |-> 0, dir |-> "", LHlim0 |-> -1, RHlim0 |-> -1,
     kept |-> TRUE, err |-> NoThrow, ub |-> FALSE, upd |-> NoUpdate]

\* the combine specifications hold no LocalMPO
NoMPO == lm = NullLocalMPO /\ mlast = NoCall /\ DEBUG = FALSE

\* the tensors left alone by the LocalMPO specification
Parked == Start(<<[id |-> "A", m |-> 2]>>, <<>>)

\* every Combiner over one to three indices (a Combiner stands for at least
\* one index, so Cis[1] exists) next to every dense tensor of rank <= MaxRank,
\* with or without the composite index
Init ==
    \E cs \in SeqsNoDup(Combinable, 1, Cardinality(Combinable)) :
    \E dis \in SeqsNoDup(PlainInds \cup {cindOf(cs)}, 0, MaxRank) :
        Start(cs, dis) /\ NoMPO

\* what the product leaves in T and trip; a task that threw leaves both alone
Product(op, o, L, R) ==
    /\ last' = Record(op, T, o, <<>>, NoCplx)
    /\ T' = IF o.err # NoError THEN T
            ELSE [is |-> o.Nis, store |-> ResultStore(o.m, L, R)]
    /\ trip' = IF o.err # NoError THEN trip
               ELSE IF o.path = "uncombine"
                    THEN [trip EXCEPT !.phase =
                            IF @ = "combined" THEN "roundtrip" ELSE "none"]
                    ELSE [T0 |-> T, phase |-> "combined"]
    /\ UNCHANGED <<cmb, lm, mlast, DEBUG>>

\* T *= cmb
ContractRealCombiner ==
    /\ T.store.kind = "ITReal"
    /\ Product("RealCombiner",
               doTaskRealCombiner(Contract(T.is, cmb.is), T.store, cmb.store,
                                  NewManageStore),
               T.store, cmb.store)

\* cmb * T
ContractCombinerReal ==
    /\ T.store.kind = "ITReal"
    /\ Product("CombinerReal",
               doTaskCombinerReal(Contract(cmb.is, T.is), cmb.store, T.store,
                                  NewManageStore),
               cmb.store, T.store)

\* element access on the Combiner
GetElt ==
    \E inds \in UNION { [1..k -> EltVals] : k \in 0..MaxEltInds } :
        LET g == doTaskGetElt([inds |-> inds], cmb.store)
        IN  /\ last' = Record("GetElt", T, [NoOutcome EXCEPT !.err = g.err],
                              inds, g.val)
            /\ UNCHANGED <<T, cmb, trip, lm, mlast, DEBUG>>

Next == ContractRealCombiner \/ ContractCombinerReal

Spec == Init /\ [][Next]_vars

\* Element access reads the Combiner alone: it is checked over every
\* Combiner, next to the tensor of its constituents.
InitElt ==
    \E cs \in SeqsNoDup(Combinable, 1, Cardinality(Combinable)) :
        Start(cs, cs) /\ NoMPO

NextElt == GetElt

SpecElt == InitElt /\ [][NextElt]_vars

\* ---------------------------------------------------------------- LocalMPO calls
\* a call on the object: what it leaves in lm and mlast (LHlim0, RHlim0: the
\* limits before the call; kept: the call left every member as it was)
Call(op, arg, dir, ret) ==
    /\ ~lm.crashed
    /\ lm' = ret.lm
    /\ mlast' = [op |-> op, arg |-> arg, dir |-> dir, LHlim0 |-> lm.LHlim,
                 RHlim0 |-> lm.RHlim, kept |-> (ret.lm = lm), err |-> ret.err,
                 ub |-> ret.ub, upd |-> ret.upd]
    /\ UNCHANGED <<T, cmb, last, trip, DEBUG>>

\* sites and bonds handed to position and shift: every index of PH_ and one
\* beyond it on either side
Sites == (-1)..(lm.N + 2)

\* PH.position(b,psi)
Position ==
    \E b \in Sites : \E u \in UBOutcomes :
        Call("position", b, "", position(lm, b, DEBUG, u))

\* PH.shift(j,dir,A)
Shift ==
    \E j \in Sites : \E dir \in {Fromleft, Fromright} : \E u \in UBOutcomes :
        Call("shift", j, dir, shift(lm, j, dir, DEBUG, u))

\* PH.reset(); Op_ is dereferenced, so the object is not null
Reset ==
    /\ ~lm.null
    /\ Call("reset", 0, "", reset(lm))

\* a null LocalMPO or one constructed over an MPO of 1..MaxN sites with
\* num_center in 1..MaxNc, in either build
InitMPO ==
    /\ Parked
    /\ lm \in {NullLocalMPO} \cup
              { NewLocalMPO(N, c).lm : N \in 1..MaxN, c \in 1..MaxNc }
    /\ mlast = NoCall
    /\ DEBUG \in BOOLEAN

NextMPO == Position \/ Shift \/ Reset

SpecMPO == InitMPO /\ [][NextMPO]_vars

\* ---------------------------------------------------------------- properties
\* what the last Contract task was given
IsContract == last.op \in {"RealCombiner", "CombinerReal"}

Returned == IsContract /\ last.err = NoError

dis0 == last.in.is

Cis0 == last.cmb.is

Has(is, I) == \E j \in 1..Len(is) : is[j] = I

\* J1 is the first position of Cis[1] in dis
FirstAt(dis, I, J1) == At(dis, J1) = I /\ \A k \in 0..(J1 - 1) : At(dis, k) # I

\* Cis[2..] stand in dis right after position J1, in the order of Cis
RunAfter(dis, Cis, J1) ==
    \A c \in 2..(r(Cis) - 1) : J1 + c - 1 < r(dis) /\ At(dis, J1 + c - 1) = At(Cis, c)

\* C1: combining (dis lacks Cis[0]) with Cis[1] first found at J1, combine()
\* relabels without permuting iff Cis[2..] stand at J1+1, J1+2, ... in the
\* order of Cis, and then Nis = dis[0..J1-1], Cis[0], dis[J1+Cis.r()-1..].
C1_ContigRelabels ==
    (IsContract /\ ~Has(dis0, At(Cis0, 0))) =>
        \A J1 \in 0..(r(dis0) - 1) :
            FirstAt(dis0, At(Cis0, 1), J1) =>
                /\ (last.path = "contig") <=> RunAfter(dis0, Cis0, J1)
                /\ (last.path = "contig") =>
                      /\ last.err = NoError /\ last.assigned
                      /\ last.P = <<>>
                      /\ last.Nis = SubSeq(dis0, 1, J1) \o <<At(Cis0, 0)>>
                                    \o SubSeq(dis0, J1 + r(Cis0), r(dis0))
                      /\ T.is = last.Nis

\* a run of two constituents relabelled between a kept prefix and a kept suffix
C1_Witness ==
    /\ Returned /\ last.path = "contig"
    /\ r(Cis0) = 3 /\ r(dis0) = 4
    /\ At(dis0, 1) = At(Cis0, 1) /\ At(dis0, 2) = At(Cis0, 2)
    /\ T.is = <<At(dis0, 0), At(Cis0, 0), At(dis0, 3)>>

\* positions of dis holding the first occurrence of a constituent
ConstituentPos(dis, Cis) ==
    { j \in 0..(r(dis) - 1) : \E c \in 1..(r(Cis) - 1) : FirstAt(dis, At(Cis, c), j) }

RECURSIVE Pick(_, _, _)
\* the entries of dis at the positions of keep, in the order of dis, from j on
Pick(dis, keep, j) ==
    IF j >= r(dis) THEN <<>>
    ELSE (IF j \in keep THEN <<At(dis, j)>> ELSE <<>>) \o Pick(dis, keep, j + 1)

\* C2: combining with every constituent in dis but not as one ordered run,
\* combine() builds a bijection P of 0..dis.r()-1 that sends the position of
\* Cis[c] to c-1 and the other positions, in increasing order, to the
\* destinations after them; Nis is Cis[0], then the other indices in order.
C2_GeneralPermutes ==
    (/\ IsContract /\ ~Has(dis0, At(Cis0, 0))
     /\ \A c \in 1..(r(Cis0) - 1) : Has(dis0, At(Cis0, c))
     /\ \A J1 \in 0..(r(dis0) - 1) :
            FirstAt(dis0, At(Cis0, 1), J1) => ~RunAfter(dis0, Cis0, J1))
    => LET P == last.P
           n == r(dis0)
           cpos == ConstituentPos(dis0, Cis0)
           rest == (0..(n - 1)) \ cpos
       IN  /\ last.err = NoError /\ last.assigned
           /\ Len(P) = n
           /\ { dest(P, j) : j \in 0..(n - 1) } = 0..(n - 1)
           /\ \A j \in 0..(n - 1) : dest(P, j) # -1
           /\ \A c \in 1..(r(Cis0) - 1) : \A j \in 0..(n - 1) :
                  FirstAt(dis0, At(Cis0, c), j) => dest(P, j) = c - 1
           /\ \A j \in rest : dest(P, j) >= r(Cis0) - 1
           /\ \A j1, j2 \in rest : j1 < j2 => dest(P, j1) < dest(P, j2)
           /\ last.Nis = <<At(Cis0, 0)>> \o Pick(dis0, rest, 0)
           /\ T.is = last.Nis

\* two constituents in swapped order, apart, between two other indices
C2_Witness ==
    /\ Returned /\ last.path = "general"
    /\ r(Cis0) = 3 /\ r(dis0) = 4
    /\ At(dis0, 3) = At(Cis0, 1) /\ At(dis0, 1) = At(Cis0, 2)
    /\ last.P = <<2, 1, 3, 0>>
    /\ T.is = <<At(Cis0, 0), At(dis0, 0), At(dis0, 2)>>

\* C3: when dis holds the composite index Cis[0] at position jc, Nis is
\* dis[0..jc-1], then Cis[1], Cis[2], ... in the Combiner's order, then
\* dis[jc+1..], and no Permutation is computed.
C3_UncombineReplaces ==
    IsContract =>
        \A jc \in 0..(r(dis0) - 1) :
            FirstAt(dis0, At(Cis0, 0), jc) =>
                /\ last.err = NoError /\ last.assigned
                /\ last.Nis = SubSeq(dis0, 1, jc) \o SubSeq(Cis0, 2, r(Cis0))
                              \o SubSeq(dis0, jc + 2, r(dis0))
                /\ T.is = last.Nis
                /\ last.P = <<>>
                /\ last.path = "uncombine"

\* the composite index of two constituents split between two other indices
C3_Witness ==
    /\ Returned /\ last.path = "uncombine"
    /\ r(dis0) = 3 /\ r(Cis0) = 3
    /\ At(dis0, 1) = At(Cis0, 0)
    /\ ~HasDup(T.is)
    /\ T.is = <<At(dis0, 0)>> \o SubSeq(Cis0, 2, 3) \o <<At(dis0, 2)>>

\* the call relabels: it uncombines, or it combines one ordered run
Relabels(dis, Cis) ==
    \/ Has(dis, At(Cis, 0))
    \/ \E J1 \in 0..(r(dis) - 1) :
          FirstAt(dis, At(Cis, 1), J1) /\ RunAfter(dis, Cis, J1)

\* C4: on the uncombine path and on the contiguous-and-ordered combine path
\* makeNewData is never called and the product keeps the very buffer instance
\* of the dense operand, in both operand orders; new storage is installed
\* only by a call that permutes, and then exactly once.
C4_RelabelKeepsBuffer ==
    IsContract =>
        /\ Relabels(dis0, Cis0) =>
              /\ last.err = NoError
              /\ ~newData(last.m) /\ last.m.calls = 0
              /\ T.store = last.in.store
              /\ T.store.id = last.in.store.id
        /\ last.m.calls <= 1
        /\ (last.m.calls = 1 \/ T.store.id # last.in.store.id) =>
              /\ last.err = NoError /\ ~Relabels(dis0, Cis0)
              /\ last.m.calls = 1 /\ newData(last.m)
              /\ T.store.id \notin {last.in.store.id, last.cmb.store.id}
              /\ T.store.data = last.m.nd

\* Combiner * dense on the contiguous path keeps the dense operand's buffer
C4_Witness ==
    /\ last.op = "CombinerReal" /\ last.err = NoError
    /\ last.path = "contig" /\ r(Cis0) = 3 /\ r(dis0) = 3
    /\ T.store.id = last.in.store.id
    /\ T.store.kind = "ITReal"
    /\ T.is # last.in.is

\* the first constituent (in Cis order) that dis lacks is Cis[k]
FirstMissing(dis, Cis, k) ==
    /\ ~Has(dis, At(Cis, k))
    /\ \A c \in 1..(k - 1) : Has(dis, At(Cis, c))

\* C5: when dis lacks Cis[0] and lacks a constituent, combine() fails with an
\* error naming the first missing constituent (in Cis order); neither operand
\* is changed, Nis stays unassigned and nothing is installed.
C5_MissingIndexNamed ==
    (IsContract /\ ~Has(dis0, At(Cis0, 0))) =>
        \A k \in 1..(r(Cis0) - 1) :
            FirstMissing(dis0, Cis0, k) =>
                /\ last.err # NoError
                /\ last.err.missing = At(Cis0, k)
                /\ T = last.in /\ cmb = last.cmb
                /\ ~last.assigned /\ last.Nis = <<>>
                /\ ~newData(last.m) /\ last.m.action = "None"

\* the other operand order, run on what the last Contract task was given
Mirror ==
    IF last.op = "RealCombiner"
    THEN doTaskCombinerReal(Contract(Cis0, dis0), last.cmb.store, last.in.store,
                            NewManageStore)
    ELSE doTaskRealCombiner(Contract(dis0, Cis0), last.in.store, last.cmb.store,
                            NewManageStore)

\* C6: the two operand orders give the same Nis and the same result storage
\* contents; Combiner * dense tells the mediator assignPointerRtoL exactly
\* when it installed no new storage, so the product holds the dense operand's
\* storage and never the Combiner's.
C6_OrdersAgree ==
    IsContract =>
        LET mr == Mirror
            ms == IF last.op = "RealCombiner"
                  THEN ResultStore(mr.m, last.cmb.store, last.in.store)
                  ELSE ResultStore(mr.m, last.in.store, last.cmb.store)
        IN  /\ mr.err = last.err
            /\ mr.Nis = last.Nis /\ mr.assigned = last.assigned
            /\ last.err = NoError =>
                  /\ ms.kind = "ITReal" /\ T.store.kind = "ITReal"
                  /\ ms.data = T.store.data
                  /\ ms.id # last.cmb.store.id
                  /\ T.store.id # last.cmb.store.id
            /\ (last.op = "CombinerReal" /\ last.err = NoError) =>
                  ((last.m.action = "AssignPointerRtoL") <=> ~newData(last.m))
            /\ (last.op = "RealCombiner" /\ last.err = NoError) =>
                  ((mr.m.action = "AssignPointerRtoL") <=> ~newData(last.m))

\* Combiner * dense relabelled and was told to keep the right operand
C6_Witness ==
    /\ last.op = "CombinerReal" /\ last.err = NoError
    /\ last.path = "uncombine" /\ r(dis0) = 2
    /\ last.m.action = "AssignPointerRtoL"
    /\ T.store = last.in.store
    /\ Mirror.m.action = "None"

\* position (1-based) of I in is
PosOf(is, I) == CHOOSE j \in 1..Len(is) : is[j] = I

\* X and Y, tensors over the same indices in whatever order, hold the same
\* element for every assignment of values to the indices
SameElements(X, Y) ==
    LET dx == Extents(X.is)
        sx == Strides(dx)
        sy == Strides(Extents(Y.is))
        px == AsTuple([j \in 1..Len(Y.is) |-> PosOf(X.is, Y.is[j])])
    IN  \A k \in 0..(Len(X.store.data) - 1) :
            LET vx == ValsOf(dx, sx, k)
                vy == [j \in 1..Len(Y.is) |-> vx[px[j]]]
            IN  Y.store.data[Offset(sy, vy) + 1] = X.store.data[k + 1]

Indices(is) == { is[j] : j \in 1..Len(is) }

\* C7: a tensor holding every constituent and not the composite index,
\* combined (on either combine path) and then uncombined with the same
\* Combiner, has the indices it had and, for every assignment of values to
\* them, the element it had.
C7_RoundTrip ==
    (Returned /\ trip.phase = "roundtrip" /\ ~HasDup(trip.T0.is)) =>
        /\ Indices(T.is) = Indices(trip.T0.is)
        /\ Len(T.is) = Len(trip.T0.is)
        /\ Len(T.store.data) = Len(trip.T0.store.data)
        /\ SameElements(trip.T0, T)

\* a round trip through the permuting path: the indices come back in another
\* order, in another buffer
C7_Witness ==
    /\ Returned /\ trip.phase = "roundtrip" /\ last.path = "uncombine"
    /\ ~HasDup(trip.T0.is)
    /\ r(Cis0) = 3 /\ Len(T.is) = 4
    /\ T.is # trip.T0.is
    /\ T.store.data # trip.T0.store.data
    /\ T.store.id # trip.T0.store.id

\* C8: the element of the combined tensor at composite value v and the other
\* indices' values is the element of the input whose constituent values, in
\* the order Cis[1], Cis[2], ..., linearize to v, on both combine paths; and
\* (A,B,C) of dimensions 2,3,2 combined over (A,B) gives (composite(6), C)
\* with element [a,b,c] at [a*3+b, c].
C8_Linearization ==
    (Returned /\ ~Has(dis0, At(Cis0, 0)) /\ ~HasDup(dis0)) =>
        LET cind == At(Cis0, 0)
            nc == r(Cis0) - 1
            din == Extents(dis0)
            sin == Strides(din)
            sout == Strides(Extents(T.is))
            cst == Strides(Extents(SubSeq(Cis0, 2, r(Cis0))))
            cpos == AsTuple([c \in 1..nc |-> PosOf(dis0, Cis0[c + 1])])
        IN  /\ \A k \in 0..(Len(last.in.store.data) - 1) :
                  LET vin == ValsOf(din, sin, k)
                      v == Offset(cst, [c \in 1..nc |-> vin[cpos[c]]])
                      vout == [j \in 1..Len(T.is) |->
                                  IF T.is[j] = cind THEN v
                                  ELSE vin[PosOf(dis0, T.is[j])]]
                  IN  T.store.data[Offset(sout, vout) + 1] = last.in.store.data[k + 1]
            /\ (/\ dis0 = <<[id |-> "A", m |-> 2], [id |-> "B", m |-> 3],
                            [id |-> "C", m |-> 2]>>
                /\ SubSeq(Cis0, 2, r(Cis0)) = <<[id |-> "A", m |-> 2],
                                                [id |-> "B", m |-> 3]>>)
               => /\ T.is = <<[id |-> "c", m |-> 6], [id |-> "C", m |-> 2]>>
                  /\ \A a \in 0..1, b \in 0..2, c \in 0..1 :
                        T.store.data[Offset(<<2, 1>>, <<a * 3 + b, c>>) + 1]
                            = last.in.store.data[Offset(<<6, 2, 1>>, <<a, b, c>>) + 1]

\* the scenario (A,B,C) combined over (A,B)
C8_Witness ==
    /\ Returned
    /\ dis0 = <<[id |-> "A", m |-> 2], [id |-> "B", m |-> 3], [id |-> "C", m |-> 2]>>
    /\ T.is = <<[id |-> "c", m |-> 6], [id |-> "C", m |-> 2]>>
    /\ Len(T.store.data) = 12

\* C9: for dis and Cis without duplicates every successful combine() writes
\* each slot of the builder exactly once and yields an Nis without duplicate,
\* of rank dis.r()+Cis.r()-2 when uncombining and dis.r()+2-Cis.r() when
\* combining.
C9_NisValid ==
    (Returned /\ ~HasDup(dis0) /\ ~HasDup(Cis0)) =>
        /\ ~last.newind.oob
        /\ \A j \in 1..Len(last.newind.cnt) : last.newind.cnt[j] = 1
        /\ last.Nis = last.newind.ext
        /\ ~HasDup(last.Nis)
        /\ r(last.Nis) = IF Has(dis0, At(Cis0, 0))
                         THEN r(dis0) + r(Cis0) - 2
                         ELSE r(dis0) + 2 - r(Cis0)

\* C10: GetElt on Combiner storage fails whenever index values are given and
\* returns 1+0i exactly when none is; the Combiner is unchanged either way.
C10_GetEltScalarOnly ==
    last.op = "GetElt" =>
        /\ last.inds # <<>> =>
              /\ last.err.msg = "GetElt not defined for non-scalar ITCombiner storage"
              /\ last.val = NoCplx
        /\ (last.err = NoError) <=> (last.inds = <<>>)
        /\ (last.val = Cplx(1, 0)) <=> (last.inds = <<>>)
        /\ cmb = last.cmb

\* one index value asked of a Combiner: refused
C10_Witness ==
    /\ last.op = "GetElt" /\ Len(last.inds) = 1
    /\ last.err # NoError
    /\ cmb = last.cmb

\* ---------------------------------------------------------------- LocalMPO properties
\* the last call was shift on a non-null LocalMPO and got to the guard of its
\* direction (a DEBUG build throws before it unless nc_ = 2)
ShiftAtGuard == mlast.op = "shift" /\ ~lm.null /\ ~(DEBUG /\ lm.nc # 2)

\* the last call was a shift thrown out by the guard of its direction
ShiftRejected ==
    /\ ShiftAtGuard
    /\ mlast.err \in {"Can only shift at LHlim_", "Can only shift at RHlim_"}

\* C11: on a non-null LocalMPO, shift(j, Fromleft, A) with j-1 other than the
\* left limit LHlim_ fails with "Can only shift at LHlim_", shift(j,
\* Fromright, A) with j+1 other than the right limit RHlim_ fails with "Can
\* only shift at RHlim_", and a rejected shift leaves LHlim_, RHlim_ and
\* every edge tensor of PH_ as they were.
C11_ShiftGuard ==
    /\ ShiftAtGuard /\ mlast.dir = Fromleft /\ mlast.arg - 1 # mlast.LHlim0
        => mlast.err = "Can only shift at LHlim_"
    /\ ShiftAtGuard /\ mlast.dir = Fromright /\ mlast.arg + 1 # mlast.RHlim0
        => mlast.err = "Can only shift at RHlim_"
    /\ ShiftRejected => mlast.kept

\* the last call returned: no exception left it and the process lives
Succeeded == mlast.op \in {"position", "shift"} /\ mlast.err = NoThrow /\ ~lm.crashed

\* position() returns v
PositionIs(v) == positionGet(lm) = [err |-> NoThrow, val |-> v]

PositionThrows == positionGet(lm).err = "LocalMPO position not set"

\* C12: after a successful position(b,psi), whatever the limits were before,
\* LHlim_ = b-1 and RHlim_ = b+nc_ and position() returns b; after a
\* successful shift in either direction RHlim_ - LHlim_ = nc_+1 and
\* position() returns LHlim_+1; position() throws "LocalMPO position not
\* set" in exactly the states where RHlim_ - LHlim_ # nc_+1, among them the
\* constructed or reset object over an MPO whose length differs from nc_.
C12_Window ==
    /\ Succeeded /\ mlast.op = "position"
        => /\ lm.LHlim = mlast.arg - 1
           /\ lm.RHlim = mlast.arg + lm.nc
           /\ PositionIs(mlast.arg)
    /\ Succeeded /\ mlast.op = "shift"
        => /\ lm.RHlim - lm.LHlim = lm.nc + 1
           /\ PositionIs(lm.LHlim + 1)
    /\ PositionThrows <=> lm.RHlim - lm.LHlim # lm.nc + 1
    /\ ~lm.null /\ mlast.op \in {"none", "reset"}
        => (PositionThrows <=> lm.N # lm.nc)

\* a position(b,psi) that had to pull the left limit back down to b-1
C12_Witness ==
    /\ Succeeded /\ mlast.op = "position" /\ ~mlast.ub
    /\ mlast.LHlim0 > mlast.arg - 1
    /\ PositionIs(mlast.arg)

\* the edge tensors of the window, read inside PH_
EdgesInside == 0 <= lm.LHlim /\ lm.LHlim < lm.RHlim /\ lm.RHlim <= lm.N + 1

\* C13: with nc_ = 2, after every successful position(b,psi) and every
\* successful shift(j,dir,A) the two MPO site tensors handed to lop_.update
\* are those of the unprojected sites LHlim_+1 and LHlim_+2 = RHlim_-1, the
\* sites position() and position()+1, and the edge tensors handed over are
\* PH_[LHlim_] and PH_[RHlim_], with 0 <= LHlim_ < RHlim_ <= N+1.
C13_ExposedSites ==
    Succeeded /\ lm.nc = 2
    => /\ mlast.upd.called
       /\ mlast.upd.Op1 = lm.LHlim + 1
       /\ mlast.upd.Op2 = lm.LHlim + 2
       /\ lm.LHlim + 2 = lm.RHlim - 1
       /\ PositionIs(mlast.upd.Op1)
       /\ EdgesInside
       /\ mlast.upd.Lat = lm.LHlim /\ mlast.upd.L = lm.PH[lm.LHlim + 1]
       /\ mlast.upd.Rat = lm.RHlim /\ mlast.upd.R = lm.PH[lm.RHlim + 1]

====
